---- MODULE Spec2Model ----
(***************************************************************************)
(* A model of mini-redis: the framed binary protocol (protocol.rs), the    *)
(* store worker (db.rs), the shard router (shard_router.rs) and the        *)
(* per-connection reader/writer pipeline (server.rs).                      *)
(*                                                                         *)
(* Four specifications share the module:                                   *)
(*   SpecCodec  the reader's read/decode loop over a byte stream that is   *)
(*              delivered in arbitrary chunks;                             *)
(*   SpecEncode encode_response applied to one Response;                   *)
(*   SpecShard  send_to_shard feeding the db_manager workers, and          *)
(*              FairSpecShard, the same with the scheduler's fairness;     *)
(*   Spec       the connection pipeline of server.rs (reader, worker,      *)
(*              writer), and FairSpec, the same with the scheduler's       *)
(*              fairness.                                                  *)
(***************************************************************************)
EXTENDS Integers, Sequences, FiniteSets, TLC

VARIABLES
    \* SpecCodec: one reader's read/decode loop
    sent,       \* the frames the client writes, in order
    wire,       \* bytes written by the client and not yet read by the server
    fed,        \* number of bytes read_buf has delivered so far
    chunk1,     \* every read so far delivered exactly one byte
    buf,        \* reader_task's BytesMut
    state,      \* frame.state
    cpc,        \* where reader_task is: "read", "parse", "closed", "err", "panic"
    yielded,    \* the Commands try_parse has returned, in order
    rejectedAt, \* Len(yielded) when a header was first rejected, else -1
    res,        \* SpecEncode: the Response handed to encode_response, or None
    encoded,    \* SpecEncode: the Bytes encode_response returned, << >> before the call
    \* SpecShard: send_to_shard and the db_manager workers
    shard_rx,   \* [shard -> queue of DbCommand]: the bounded inboxes db_tx_channels
    shard_db,   \* [shard -> Db]: the map each db_manager owns
    shard_send, \* [shard -> the Response a worker is suspended sending, or None]
    resp_ch,    \* [connection -> queue of Response]: the bounded channel behind resp_tx
    received,   \* [connection -> Responses taken from resp_ch, in order]
    submitted,  \* the DbCommands enqueued by send_to_shard, in order
    resp_closed,\* the connections whose response receiver has been dropped
    \* Spec: the connection pipeline of server.rs
    requests,    \* [connection -> the Commands the client has written, in order]
    sock_in,     \* [connection -> bytes written by the client, not yet read]
    rbuf,        \* [connection -> reader_task's buf]
    rstate,      \* [connection -> reader_task's frame.state]
    rpc,         \* [connection -> "read", "dispatch", "done", "err", "panic"]
    rcmd,        \* [connection -> the Command try_parse just returned, or None]
    decoded,     \* [connection -> the Commands try_parse has returned, in order]
    oneshot,     \* [connection -> per dispatched command, its oneshot channel]
    db_channel,  \* the queue of DbCommand to the store worker
    store,       \* the Db the worker owns
    rx_queue,    \* [connection -> queue of oneshot receivers sent to the writer]
    wpc,         \* [connection -> "recv", "await", "await_inner", "write", "done", "err"]
    wcur,        \* [connection -> the oneshot the writer is awaiting]
    response_buf,\* [connection -> writer_task's response_buf]
    written,     \* [connection -> bytes written to the socket]
    at_eof       \* [connection -> bytes written when the reader saw EOF, else -1]

codecVars == << sent, wire, fed, chunk1, buf, state, cpc, yielded, rejectedAt,
               res, encoded >>

shardVars == << shard_rx, shard_db, shard_send, resp_ch, received, submitted,
               resp_closed >>

pipeVars == << requests, sock_in, rbuf, rstate, rpc, rcmd, decoded, oneshot,
              db_channel, store, rx_queue, wpc, wcur, response_buf, written, at_eof >>

vars == << codecVars, shardVars, pipeVars >>

(***************************************************************************)
(* protocol.rs: constants                                                  *)
(***************************************************************************)
MAGIC == 21060

VERSION == 1

HEADER_LEN == 12

MAX_FRAME == 1048576

OpGet == 1

OpSet == 2

OpDel == 3

\* bounds of the model
MaxFrames == 2

MaxSubmit == 3

MaxReq == 2

InboxCap == 1

RespCap == 1

\* the number of shards: db_tx_channels.len()
NumShards == 2

Conns == {1, 2}

Shards == 0..(NumShards - 1)

(***************************************************************************)
(* bytes::Buf helpers (big-endian reads, advance, split_to)                *)
(***************************************************************************)
get_u16(b) == b[1] * 256 + b[2]

get_u32(b) == ((b[1] * 256 + b[2]) * 256 + b[3]) * 256 + b[4]

advance(b, n) == SubSeq(b, n + 1, Len(b))

split_to(b, n) == SubSeq(b, 1, n)

put_u16(n) == << n \div 256, n % 256 >>

put_u32(n) == << n \div 16777216, (n \div 65536) % 256, (n \div 256) % 256, n % 256 >>

(***************************************************************************)
(* Command (protocol.rs:39-43); None is Option::None                       *)
(***************************************************************************)
None == [op |-> "None"]

CmdGet(r, k) == [op |-> "Get", req_id |-> r, key |-> k]

CmdSet(r, k, v) == [op |-> "Set", req_id |-> r, key |-> k, value |-> v]

CmdDelete(r, k) == [op |-> "Delete", req_id |-> r, key |-> k]

(***************************************************************************)
(* ParseState (protocol.rs:80-83)                                          *)
(***************************************************************************)
Header == [tag |-> "Header"]

Payload(h) == [tag |-> "Payload", header |-> h]

(***************************************************************************)
(* parse_req_header: fewer than 12 bytes leaves the buffer alone; a bad    *)
(* magic, version or opcode returns None AFTER the get_* calls consumed    *)
(* 2, 3 or 4 bytes ("rejected" is the eprintln! of those branches).        *)
(***************************************************************************)
\* mutant: the magic is read and checked before the length of the buffer
parse_req_header_eager(frame) ==
    IF Len(frame) >= 2 /\ get_u16(frame) # MAGIC
    THEN [some |-> FALSE, rejected |-> TRUE, buf |-> advance(frame, 2)]
    ELSE IF Len(frame) < HEADER_LEN
    THEN [some |-> FALSE, rejected |-> FALSE, buf |-> frame]
    ELSE IF frame[3] # VERSION
    THEN [some |-> FALSE, rejected |-> TRUE, buf |-> advance(frame, 3)]
    ELSE IF frame[4] \notin {OpGet, OpSet, OpDel}
    THEN [some |-> FALSE, rejected |-> TRUE, buf |-> advance(frame, 4)]
    ELSE [some |-> TRUE, rejected |-> FALSE, buf |-> advance(frame, 12),
          header |-> [opcode |-> frame[4],
                      req_id |-> get_u32(SubSeq(frame, 5, 8)),
                      payload_len |-> get_u32(SubSeq(frame, 9, 12))]]

parse_req_header(frame) ==
    IF Len(frame) < HEADER_LEN
    THEN [some |-> FALSE, rejected |-> FALSE, buf |-> frame]
    ELSE IF get_u16(frame) # MAGIC
    THEN [some |-> FALSE, rejected |-> TRUE, buf |-> advance(frame, 2)]
    ELSE IF frame[3] # VERSION
    THEN [some |-> FALSE, rejected |-> TRUE, buf |-> advance(frame, 3)]
    ELSE IF frame[4] \notin {OpGet, OpSet, OpDel}
    THEN [some |-> FALSE, rejected |-> TRUE, buf |-> advance(frame, 4)]
    ELSE [some |-> TRUE, rejected |-> FALSE, buf |-> advance(frame, 12),
          header |-> [opcode |-> frame[4],
                      req_id |-> get_u32(SubSeq(frame, 5, 8)),
                      payload_len |-> get_u32(SubSeq(frame, 9, 12))]]

(***************************************************************************)
(* The payload parsers.  get_u16 on fewer than 2 bytes panics (bytes::Buf).*)
(* Every early "return None" keeps the bytes consumed so far.              *)
(***************************************************************************)
parse_key(b) ==
    IF Len(b) < 2
    THEN [ok |-> FALSE, panic |-> TRUE, buf |-> b]
    ELSE LET key_len == get_u16(b)
             rest == advance(b, 2)
         IN IF Len(rest) < key_len
            THEN [ok |-> FALSE, panic |-> FALSE, buf |-> rest]
            ELSE [ok |-> TRUE, panic |-> FALSE, buf |-> advance(rest, key_len),
                  key |-> split_to(rest, key_len)]

parse_del_command(b, header) ==
    LET k == parse_key(b)
    IN IF k.ok
       THEN [cmd |-> CmdDelete(header.req_id, k.key), panic |-> FALSE, buf |-> k.buf]
       ELSE [cmd |-> None, panic |-> k.panic, buf |-> k.buf]

parse_get_command(b, header) ==
    LET k == parse_key(b)
    IN IF k.ok
       THEN [cmd |-> CmdGet(header.req_id, k.key), panic |-> FALSE, buf |-> k.buf]
       ELSE [cmd |-> None, panic |-> k.panic, buf |-> k.buf]

parse_set_command(b, header) ==
    LET k == parse_key(b)
    IN IF ~k.ok
       THEN [cmd |-> None, panic |-> k.panic, buf |-> k.buf]
       ELSE IF Len(k.buf) < 4
       THEN [cmd |-> None, panic |-> FALSE, buf |-> k.buf]
       ELSE LET val_len == get_u32(k.buf)
                rest == advance(k.buf, 4)
            IN IF Len(rest) < val_len
               THEN [cmd |-> None, panic |-> FALSE, buf |-> rest]
               ELSE [cmd |-> CmdSet(header.req_id, k.key, split_to(rest, val_len)),
                     panic |-> FALSE, buf |-> advance(rest, val_len)]

(***************************************************************************)
(* Frame::try_parse: one call.  The loop runs at most twice (Header, then  *)
(* Payload).  A panic unwinds before self.state is reassigned.          *)
(***************************************************************************)
\* mutant: the Payload state waits for the 2 bytes of key_len only
try_payload_short_wait(header, b) ==
    IF Len(b) < 2
    THEN [state |-> Payload(header), buf |-> b, cmd |-> None,
          panic |-> FALSE, rejected |-> FALSE]
    ELSE LET p == CASE header.opcode = OpGet -> parse_get_command(b, header)
                    [] header.opcode = OpSet -> parse_set_command(b, header)
                    [] header.opcode = OpDel -> parse_del_command(b, header)
         IN [state |-> IF p.panic THEN Payload(header) ELSE Header,
             buf |-> p.buf, cmd |-> p.cmd, panic |-> p.panic, rejected |-> FALSE]

try_payload(header, b) ==
    IF Len(b) < header.payload_len
    THEN [state |-> Payload(header), buf |-> b, cmd |-> None,
          panic |-> FALSE, rejected |-> FALSE]
    ELSE LET p == CASE header.opcode = OpGet -> parse_get_command(b, header)
                    [] header.opcode = OpSet -> parse_set_command(b, header)
                    [] header.opcode = OpDel -> parse_del_command(b, header)
         IN [state |-> IF p.panic THEN Payload(header) ELSE Header,
             buf |-> p.buf, cmd |-> p.cmd, panic |-> p.panic, rejected |-> FALSE]

try_parse(st, b) ==
    IF st.tag = "Header"
    THEN LET h == parse_req_header(b)
         IN IF h.some
            THEN try_payload(h.header, h.buf)
            ELSE [state |-> Header, buf |-> h.buf, cmd |-> None,
                  panic |-> FALSE, rejected |-> h.rejected]
    ELSE try_payload(st.header, b)

(***************************************************************************)
(* The client side of the wire: the request encoding the tests of          *)
(* protocol.rs build by hand (big-endian header and length fields).        *)
(***************************************************************************)
RawHeader(magic, version, opcode, req_id, payload_len) ==
    put_u16(magic) \o << version, opcode >> \o put_u32(req_id) \o put_u32(payload_len)

EncodeRequest(cmd) ==
    CASE cmd.op = "Get" ->
           RawHeader(MAGIC, VERSION, OpGet, cmd.req_id, 2 + Len(cmd.key))
             \o put_u16(Len(cmd.key)) \o cmd.key
      [] cmd.op = "Set" ->
           RawHeader(MAGIC, VERSION, OpSet, cmd.req_id, 2 + Len(cmd.key) + 4 + Len(cmd.value))
             \o put_u16(Len(cmd.key)) \o cmd.key \o put_u32(Len(cmd.value)) \o cmd.value
      [] cmd.op = "Delete" ->
           RawHeader(MAGIC, VERSION, OpDel, cmd.req_id, 2 + Len(cmd.key))
             \o put_u16(Len(cmd.key)) \o cmd.key

KeyA == << 97 >>

KeyB == << 98 >>

ValX == << 120 >>

ValY == << 121 >>

GoodFrame(cmd) == [kind |-> "ok", cmd |-> cmd, bytes |-> EncodeRequest(cmd)]

BadFrame(kind, bytes) == [kind |-> kind, cmd |-> None, bytes |-> bytes]

\* well-formed frames, and frames a misbehaving client can send
GoodFrames ==
    { GoodFrame(CmdGet(1, KeyA)), GoodFrame(CmdSet(2, KeyA, ValX)),
      GoodFrame(CmdDelete(3, KeyA)), GoodFrame(CmdSet(4, KeyB, << >>)) }

BadFrames ==
    { BadFrame("magic", RawHeader(0, VERSION, OpGet, 1, 3)),
      BadFrame("version", RawHeader(MAGIC, 2, OpGet, 1, 3)),
      BadFrame("opcode", RawHeader(MAGIC, VERSION, 4, 1, 3)),
      BadFrame("oversize", RawHeader(MAGIC, VERSION, OpGet, 6, MAX_FRAME + 1)
                             \o put_u16(1) \o KeyA),
      \* a SET whose key_len is 0
      BadFrame("emptykey", RawHeader(MAGIC, VERSION, OpSet, 5, 7)
                             \o put_u16(0) \o put_u32(1) \o ValX),
      \* a GET whose payload_len counts one byte after the key
      BadFrame("padded", RawHeader(MAGIC, VERSION, OpGet, 7, 4)
                             \o put_u16(1) \o KeyA \o << 0 >>),
      \* a GET header that announces no payload at all
      BadFrame("nopayload", RawHeader(MAGIC, VERSION, OpGet, 8, 0)),
      \* a DELETE whose payload is a single byte
      BadFrame("onebyte", RawHeader(MAGIC, VERSION, OpDel, 9, 1) \o << 0 >>) }

FrameSet == GoodFrames \cup BadFrames

RECURSIVE Flatten(_)
Flatten(fs) == IF fs = << >> THEN << >> ELSE Head(fs).bytes \o Flatten(Tail(fs))

WellFormed(fs) == \A i \in 1..Len(fs) : fs[i].kind = "ok"

\* number of leading frames of fs that lie wholly within the first n bytes
RECURSIVE CompleteFrames(_, _)
CompleteFrames(fs, n) ==
    IF fs = << >> \/ Len(Head(fs).bytes) > n THEN 0
    ELSE 1 + CompleteFrames(Tail(fs), n - Len(Head(fs).bytes))

\* the reader's inner loop run to completion on one buffer
RECURSIVE ParseAll(_, _)
ParseAll(st, b) ==
    LET r == try_parse(st, b)
    IN IF r.cmd = None THEN << >> ELSE << r.cmd >> \o ParseAll(r.state, r.buf)

(***************************************************************************)
(* Response (protocol.rs:45-50); Option<Bytes> is Some(v) or NoValue       *)
(***************************************************************************)
Some(v) == [some |-> TRUE, v |-> v]

NoValue == [some |-> FALSE]

RespOk(r, value) == [status |-> "Ok", req_id |-> r, value |-> value]

RespNotFound(r) == [status |-> "NotFound", req_id |-> r]

RespErr(r, message) == [status |-> "Err", req_id |-> r, message |-> message]

(***************************************************************************)
(* Db = HashMap<Bytes, Bytes> (db.rs:6) as a function on the keys present  *)
(***************************************************************************)
EmptyDb == [k \in {} |-> << >>]

db_insert(db, key, value) ==
    [k \in DOMAIN db \cup {key} |-> IF k = key THEN value ELSE db[k]]

db_remove(db, key) == [k \in DOMAIN db \ {key} |-> db[k]]

(***************************************************************************)
(* DbCommand (db.rs:10-15).  resp_tx is the sink the reply is sent on.     *)
(***************************************************************************)
DbGet(key, req_id, resp_tx) ==
    [op |-> "Get", key |-> key, req_id |-> req_id, resp_tx |-> resp_tx]

DbSet(key, value, req_id, resp_tx) ==
    [op |-> "Set", key |-> key, value |-> value, req_id |-> req_id, resp_tx |-> resp_tx]

DbDelete(key, req_id, resp_tx) ==
    [op |-> "Delete", key |-> key, req_id |-> req_id, resp_tx |-> resp_tx]

(***************************************************************************)
(* The body of db_manager's match (db.rs:20-39): the map after the         *)
(* command and the Response handed to resp_tx.send.                        *)
(***************************************************************************)
\* mutant: Delete replies but leaves the key in the map
db_apply_delete_keeps(db, command) ==
    CASE command.op = "Get" ->
           [db |-> db,
            resp |-> IF command.key \in DOMAIN db
                     THEN RespOk(command.req_id, Some(db[command.key]))
                     ELSE RespNotFound(command.req_id)]
      [] command.op = "Set" ->
           [db |-> db_insert(db, command.key, command.value),
            resp |-> RespOk(command.req_id, NoValue)]
      [] command.op = "Delete" ->
           [db |-> db,
            resp |-> IF command.key \in DOMAIN db
                     THEN RespOk(command.req_id, Some(db[command.key]))
                     ELSE RespNotFound(command.req_id)]

\* mutant: the reply carries req_id + 1
db_apply_wrong_req_id(db, command) ==
    CASE command.op = "Get" ->
           [db |-> db,
            resp |-> IF command.key \in DOMAIN db
                     THEN RespOk(command.req_id + 1, Some(db[command.key]))
                     ELSE RespNotFound(command.req_id + 1)]
      [] command.op = "Set" ->
           [db |-> db_insert(db, command.key, command.value),
            resp |-> RespOk(command.req_id + 1, NoValue)]
      [] command.op = "Delete" ->
           [db |-> db_remove(db, command.key),
            resp |-> IF command.key \in DOMAIN db
                     THEN RespOk(command.req_id + 1, Some(db[command.key]))
                     ELSE RespNotFound(command.req_id + 1)]

db_apply(db, command) ==
    CASE command.op = "Get" ->
           [db |-> db,
            resp |-> IF command.key \in DOMAIN db
                     THEN RespOk(command.req_id, Some(db[command.key]))
                     ELSE RespNotFound(command.req_id)]
      [] command.op = "Set" ->
           [db |-> db_insert(db, command.key, command.value),
            resp |-> RespOk(command.req_id, NoValue)]
      [] command.op = "Delete" ->
           [db |-> db_remove(db, command.key),
            resp |-> IF command.key \in DOMAIN db
                     THEN RespOk(command.req_id, Some(db[command.key]))
                     ELSE RespNotFound(command.req_id)]

(***************************************************************************)
(* shard_for_key (shard_router.rs:25-29).  KeyHash stands for AHasher: a   *)
(* fixed function of the key bytes.                                        *)
(***************************************************************************)
RECURSIVE KeyHash(_)
KeyHash(key) ==
    IF key = << >> THEN 7 ELSE (KeyHash(SubSeq(key, 1, Len(key) - 1)) * 31 + key[Len(key)]) % 65536

shard_for_key(key, num_shards) == KeyHash(key) % num_shards

(***************************************************************************)
(* SpecShard                                                               *)
(***************************************************************************)
ShardVarsInit ==
    /\ shard_rx = [s \in Shards |-> << >>]
    /\ shard_db = [s \in Shards |-> EmptyDb]
    /\ shard_send = [s \in Shards |-> None]
    /\ resp_ch = [c \in Conns |-> << >>]
    /\ received = [c \in Conns |-> << >>]
    /\ submitted = << >>
    /\ resp_closed = {}

\* mutant: GET commands are routed to shard 0 whatever their key
send_to_shard_by_opcode(command) ==
    LET shard == IF command.op = "Get" THEN 0 ELSE shard_for_key(command.key, NumShards)
    IN /\ Len(shard_rx[shard]) < InboxCap
       /\ shard_rx' = [shard_rx EXCEPT ![shard] = Append(@, command)]
       /\ submitted' = Append(submitted, command)

\* mutant: commands are dealt to the shards in turn
send_to_shard_round_robin(command) ==
    LET shard == Len(submitted) % NumShards
    IN /\ Len(shard_rx[shard]) < InboxCap
       /\ shard_rx' = [shard_rx EXCEPT ![shard] = Append(@, command)]
       /\ submitted' = Append(submitted, command)

\* send_to_shard (shard_router.rs:7-23): the send suspends while the inbox is full
send_to_shard(command) ==
    LET shard == shard_for_key(command.key, NumShards)
    IN /\ Len(shard_rx[shard]) < InboxCap
       /\ shard_rx' = [shard_rx EXCEPT ![shard] = Append(@, command)]
       /\ submitted' = Append(submitted, command)

\* a connection dispatches its next command; req_id counts the connection's
\* requests and every SET writes a value of its own
NextReqId(c) == 1 + Cardinality({i \in 1..Len(submitted) : submitted[i].resp_tx = c})

FreshValue == << 100 + Len(submitted) >>

\* connection 1 uses both keys, connection 2 the first
SubmitKeys(c) == IF c = 1 THEN {KeyA, KeyB} ELSE {KeyA}

shard_submit(c) ==
    /\ Len(submitted) < MaxSubmit
    /\ \E key \in SubmitKeys(c) :
         \/ send_to_shard(DbGet(key, NextReqId(c), c))
         \/ send_to_shard(DbSet(key, FreshValue, NextReqId(c), c))
         \/ send_to_shard(DbDelete(key, NextReqId(c), c))
    /\ UNCHANGED << shard_db, shard_send, resp_ch, received, resp_closed >>
    /\ UNCHANGED << codecVars, pipeVars >>

\* mutant: a send never notices that the receiver is gone
resp_tx_send_unaware(c) ==
    IF Len(resp_ch[c]) < RespCap THEN "sent" ELSE "full"

\* resp_tx.send(response).await (db.rs:24-36) on the bounded channel of
\* connection c: an error at once when the receiver has been dropped,
\* completion when the channel has room, suspension while it is full
resp_tx_send(c) ==
    IF c \in resp_closed THEN "closed"
    ELSE IF Len(resp_ch[c]) < RespCap THEN "sent" ELSE "full"

\* db_manager (db.rs:17-41), one iteration: recv, the match, resp_tx.send.
\* The send completes at once when the response channel has room; while it is
\* full the worker stays suspended in it with the Response in hand; when the
\* receiver is gone the send fails and `let _ =` drops the error.
db_manager(s) ==
    /\ shard_send[s] = None
    /\ shard_rx[s] # << >>
    /\ LET command == Head(shard_rx[s])
           r == db_apply(shard_db[s], command)
           sent_ == resp_tx_send(command.resp_tx)
       IN /\ shard_rx' = [shard_rx EXCEPT ![s] = Tail(@)]
          /\ shard_db' = [shard_db EXCEPT ![s] = r.db]
          /\ resp_ch' = IF sent_ = "sent"
                        THEN [resp_ch EXCEPT ![command.resp_tx] = Append(@, r.resp)]
                        ELSE resp_ch
          /\ shard_send' = IF sent_ = "full"
                           THEN [shard_send EXCEPT ![s] =
                                   [op |-> "Send", resp_tx |-> command.resp_tx, resp |-> r.resp]]
                           ELSE shard_send
    /\ UNCHANGED << received, submitted, resp_closed >>
    /\ UNCHANGED << codecVars, pipeVars >>

\* the suspended resp_tx.send(..).await completes once the channel has room,
\* or fails once the receiver is gone
db_manager_send(s) ==
    /\ shard_send[s] # None
    /\ resp_tx_send(shard_send[s].resp_tx) # "full"
    /\ resp_ch' = IF resp_tx_send(shard_send[s].resp_tx) = "sent"
                  THEN [resp_ch EXCEPT ![shard_send[s].resp_tx] = Append(@, shard_send[s].resp)]
                  ELSE resp_ch
    /\ shard_send' = [shard_send EXCEPT ![s] = None]
    /\ UNCHANGED << shard_rx, shard_db, received, submitted, resp_closed >>
    /\ UNCHANGED << codecVars, pipeVars >>

\* the receiving half of a connection's response channel takes one Response
resp_recv(c) ==
    /\ c \notin resp_closed
    /\ resp_ch[c] # << >>
    /\ received' = [received EXCEPT ![c] = Append(@, Head(resp_ch[c]))]
    /\ resp_ch' = [resp_ch EXCEPT ![c] = Tail(@)]
    /\ UNCHANGED << shard_rx, shard_db, shard_send, submitted, resp_closed >>
    /\ UNCHANGED << codecVars, pipeVars >>

\* the connections whose writer may return early
Droppers == {1}

\* the receiving half of connection c's response channel is dropped (its
\* writer has returned); what the channel holds is never received
resp_drop(c) ==
    /\ c \notin resp_closed
    /\ resp_closed' = resp_closed \cup {c}
    /\ UNCHANGED << shard_rx, shard_db, shard_send, resp_ch, received, submitted >>
    /\ UNCHANGED << codecVars, pipeVars >>

(***************************************************************************)
(* encode_response (protocol.rs:207-252): little-endian header and lengths *)
(***************************************************************************)
StatusOk == 0

StatusNotFound == 1

StatusErr == 2

put_u16_le(n) == << n % 256, (n \div 256) % 256 >>

put_u32_le(n) == << n % 256, (n \div 256) % 256, (n \div 65536) % 256, (n \div 16777216) % 256 >>

ResponseHeader(status, req_id, payload_len) ==
    put_u16_le(MAGIC) \o << VERSION, status >> \o put_u32_le(req_id) \o put_u32_le(payload_len)

encode_response(response) ==
    CASE response.status = "Ok" ->
           LET payload_len == IF response.value.some THEN 4 + Len(response.value.v) ELSE 0
           IN ResponseHeader(StatusOk, response.req_id, payload_len)
                \o (IF response.value.some
                    THEN put_u32_le(Len(response.value.v)) \o response.value.v
                    ELSE << >>)
      [] response.status = "NotFound" ->
           ResponseHeader(StatusNotFound, response.req_id, 0)
      [] response.status = "Err" ->
           LET msg_len == Len(response.message) % 65536
           IN ResponseHeader(StatusErr, response.req_id, 2 + msg_len)
                \o put_u16_le(msg_len) \o response.message

(***************************************************************************)
(* Spec: process, reader_task and writer_task of server.rs, with the       *)
(* worker of db.rs at the other end of db_channel.  Every channel here is  *)
(* unbounded (server.rs:19, 13), so no send suspends.                      *)
(***************************************************************************)
PipeVarsInit ==
    /\ requests = [c \in Conns |-> << >>]
    /\ sock_in = [c \in Conns |-> << >>]
    /\ rbuf = [c \in Conns |-> << >>]
    /\ rstate = [c \in Conns |-> Header]
    /\ rpc = [c \in Conns |-> "read"]
    /\ rcmd = [c \in Conns |-> None]
    /\ decoded = [c \in Conns |-> << >>]
    /\ oneshot = [c \in Conns |-> << >>]
    /\ db_channel = << >>
    /\ store = EmptyDb
    /\ rx_queue = [c \in Conns |-> << >>]
    /\ wpc = [c \in Conns |-> "recv"]
    /\ wcur = [c \in Conns |-> 0]
    /\ response_buf = [c \in Conns |-> << >>]
    /\ written = [c \in Conns |-> << >>]
    /\ at_eof = [c \in Conns |-> -1]

ReaderGone(c) == rpc[c] \in {"done", "err", "panic"}

WriterGone(c) == wpc[c] \in {"done", "err"}

TotalRequests == Len(requests[1]) + Len(requests[2])

\* the client writes one more well-formed frame; its req_id names the
\* connection and the request, every SET writes a value of its own.
\* Connection 1 uses both keys, connection 2 the first.
ClientReqId(c) == 16 * c + Len(requests[c]) + 1

ClientValue(c) == << 100 + ClientReqId(c) >>

ClientKeys(c) == IF c = 1 THEN {KeyA, KeyB} ELSE {KeyA}

ClientCommands(c) ==
    { CmdGet(ClientReqId(c), key) : key \in ClientKeys(c) }
      \cup { CmdSet(ClientReqId(c), key, ClientValue(c)) : key \in ClientKeys(c) }
      \cup { CmdDelete(ClientReqId(c), KeyA) }

client_write(c) ==
    /\ ~ReaderGone(c)
    /\ TotalRequests < MaxReq
    /\ \E cmd \in ClientCommands(c) :
            /\ requests' = [requests EXCEPT ![c] = Append(@, cmd)]
            /\ sock_in' = [sock_in EXCEPT ![c] = @ \o EncodeRequest(cmd)]
    /\ UNCHANGED << rbuf, rstate, rpc, rcmd, decoded, oneshot, db_channel, store,
                    rx_queue, wpc, wcur, response_buf, written >>
    /\ UNCHANGED at_eof
    /\ UNCHANGED << codecVars, shardVars >>

\* reader_task: `while let Some(command) = frame.try_parse(&mut buf)` evaluated
\* once on buffer b: the Command goes to the loop body ("dispatch"), None sends
\* the reader back to read_buf.  The call touches the reader's own data only.
reader_parse(c, b) ==
    LET r == try_parse(rstate[c], b)
    IN /\ rstate' = [rstate EXCEPT ![c] = r.state]
       /\ rbuf' = [rbuf EXCEPT ![c] = r.buf]
       /\ rcmd' = [rcmd EXCEPT ![c] = r.cmd]
       /\ decoded' = [decoded EXCEPT ![c] = IF r.cmd = None THEN @ ELSE Append(@, r.cmd)]
       /\ rpc' = [rpc EXCEPT ![c] = IF r.panic THEN "panic"
                                    ELSE IF r.cmd = None THEN "read" ELSE "dispatch"]

\* reader_task: socket.read_buf(&mut buf).await returns Ok(n), n > 0: the
\* bytes in flight are appended and the parse loop is entered
reader_read(c) ==
    /\ rpc[c] = "read"
    /\ sock_in[c] # << >>
    /\ sock_in' = [sock_in EXCEPT ![c] = << >>]
    /\ reader_parse(c, rbuf[c] \o sock_in[c])
    /\ UNCHANGED << requests, oneshot, db_channel, store,
                    rx_queue, wpc, wcur, response_buf, written >>
    /\ UNCHANGED at_eof
    /\ UNCHANGED << codecVars, shardVars >>

\* reader_task: read_buf returns Ok(0) => break, and reader_task returns
\* Ok(()): the client has closed its sending side (it writes no more) and
\* no byte is in flight
reader_eof(c) ==
    /\ rpc[c] = "read"
    /\ sock_in[c] = << >>
    /\ rpc' = [rpc EXCEPT ![c] = "done"]
    /\ UNCHANGED << requests, sock_in, rbuf, rstate, rcmd, decoded, oneshot,
                    db_channel, store, rx_queue, wpc, wcur, response_buf, written >>
    /\ at_eof' = [at_eof EXCEPT ![c] = Len(written[c])]
    /\ UNCHANGED << codecVars, shardVars >>

\* reader_task: read_buf returns Err(err) => return Err(err.into())
reader_read_err(c) ==
    /\ rpc[c] = "read"
    /\ rpc' = [rpc EXCEPT ![c] = "err"]
    /\ UNCHANGED << requests, sock_in, rbuf, rstate, rcmd, decoded, oneshot,
                    db_channel, store, rx_queue, wpc, wcur, response_buf, written >>
    /\ UNCHANGED at_eof
    /\ UNCHANGED << codecVars, shardVars >>

\* reader_task, the loop body (server.rs:52-67): a oneshot channel, the
\* DbCommand built by the match, db_channel.send, sender_to_writer.send, and
\* the next try_parse.  The match has arms for Command::Get and Command::Set
\* only: for a Command::Delete no DbCommand is built and the reader goes no
\* further.  sender_to_writer.send fails once the writer has returned: the
\* command is already queued for the worker, and reader_task returns Err.
reader_dispatch(c) ==
    /\ rpc[c] = "dispatch"
    /\ rcmd[c].op \in {"Get", "Set"}
    /\ LET tx == [conn |-> c, slot |-> Len(oneshot[c]) + 1]
           cmd == IF rcmd[c].op = "Get"
                  THEN DbGet(rcmd[c].key, rcmd[c].req_id, tx)
                  ELSE DbSet(rcmd[c].key, rcmd[c].value, rcmd[c].req_id, tx)
       IN /\ oneshot' = [oneshot EXCEPT ![c] = Append(@, [req_id |-> rcmd[c].req_id, resp |-> None])]
          /\ db_channel' = Append(db_channel, cmd)
          /\ IF WriterGone(c)
             THEN /\ rpc' = [rpc EXCEPT ![c] = "err"]
                  /\ rcmd' = [rcmd EXCEPT ![c] = None]
                  /\ UNCHANGED << rx_queue, rbuf, rstate, decoded >>
             ELSE /\ rx_queue' = [rx_queue EXCEPT ![c] = Append(@, tx.slot)]
                  /\ reader_parse(c, rbuf[c])
    /\ UNCHANGED << requests, sock_in, store, wpc, wcur, response_buf, written >>
    /\ UNCHANGED at_eof
    /\ UNCHANGED << codecVars, shardVars >>

\* db_manager (db.rs:17-41) serving db_channel: recv, the match, and the send
\* on the sink carried by the command, here the oneshot sender reader_task
\* made.  The send fails when the receiver was dropped with the writer; the
\* result of the send is discarded (`let _ =`).
db_worker ==
    /\ db_channel # << >>
    /\ LET command == Head(db_channel)
           r == db_apply(store, command)
           c == command.resp_tx.conn
           slot == command.resp_tx.slot
       IN /\ db_channel' = Tail(db_channel)
          /\ store' = r.db
          /\ oneshot' = IF WriterGone(c) THEN oneshot
                        ELSE [oneshot EXCEPT ![c][slot].resp = r.resp]
    /\ UNCHANGED << requests, sock_in, rbuf, rstate, rpc, rcmd, decoded,
                    rx_queue, wpc, wcur, response_buf, written >>
    /\ UNCHANGED at_eof
    /\ UNCHANGED << codecVars, shardVars >>

\* mutant: the writer takes the newest queued receiver first
writer_recv_lifo(c) ==
    /\ wpc[c] = "recv"
    /\ rx_queue[c] # << >> \/ ReaderGone(c)
    /\ IF rx_queue[c] # << >>
       THEN /\ wcur' = [wcur EXCEPT ![c] = rx_queue[c][Len(rx_queue[c])]]
            /\ rx_queue' = [rx_queue EXCEPT ![c] = SubSeq(@, 1, Len(@) - 1)]
            /\ wpc' = [wpc EXCEPT ![c] = "await"]
       ELSE /\ wpc' = [wpc EXCEPT ![c] = "done"]
            /\ UNCHANGED << wcur, rx_queue >>
    /\ UNCHANGED << requests, sock_in, rbuf, rstate, rpc, rcmd, decoded, oneshot,
                    db_channel, store, response_buf, written >>
    /\ UNCHANGED at_eof
    /\ UNCHANGED << codecVars, shardVars >>

\* mutant: the writer returns as soon as the reader has, leaving the queue
writer_recv_exit_early(c) ==
    /\ wpc[c] = "recv"
    /\ rx_queue[c] # << >> \/ ReaderGone(c)
    /\ IF ~ReaderGone(c)
       THEN /\ wcur' = [wcur EXCEPT ![c] = Head(rx_queue[c])]
            /\ rx_queue' = [rx_queue EXCEPT ![c] = Tail(@)]
            /\ wpc' = [wpc EXCEPT ![c] = "await"]
       ELSE /\ wpc' = [wpc EXCEPT ![c] = "done"]
            /\ UNCHANGED << wcur, rx_queue >>
    /\ UNCHANGED << requests, sock_in, rbuf, rstate, rpc, rcmd, decoded, oneshot,
                    db_channel, store, response_buf, written >>
    /\ UNCHANGED at_eof
    /\ UNCHANGED << codecVars, shardVars >>

\* writer_task: `while let Some(rx) = resp_rx.recv().await`.  None, and
\* Ok(()), once reader_task has returned (dropping the sender) and the queue
\* is empty.
writer_recv(c) ==
    /\ wpc[c] = "recv"
    /\ rx_queue[c] # << >> \/ ReaderGone(c)
    /\ IF rx_queue[c] # << >>
       THEN /\ wcur' = [wcur EXCEPT ![c] = Head(rx_queue[c])]
            /\ rx_queue' = [rx_queue EXCEPT ![c] = Tail(@)]
            /\ wpc' = [wpc EXCEPT ![c] = "await"]
       ELSE /\ wpc' = [wpc EXCEPT ![c] = "done"]
            /\ UNCHANGED << wcur, rx_queue >>
    /\ UNCHANGED << requests, sock_in, rbuf, rstate, rpc, rcmd, decoded, oneshot,
                    db_channel, store, response_buf, written >>
    /\ UNCHANGED at_eof
    /\ UNCHANGED << codecVars, shardVars >>

\* writer_task: `match rx.await` completes, in the outer loop (server.rs:80-82,
\* "await") or in the batching loop (server.rs:86-87, "await_inner"): the
\* worker has sent on this oneshot, the encoded Response is appended to
\* response_buf, and resp_rx.try_recv() (server.rs:85) runs: another receiver
\* is awaited in turn, or the queue is empty and the batch is ready to write.
\* (The worker never drops a sender unsent: the Err arms are not reachable.)
writer_await(c) ==
    /\ wpc[c] \in {"await", "await_inner"}
    /\ oneshot[c][wcur[c]].resp # None
    /\ response_buf' = [response_buf EXCEPT ![c] = @ \o encode_response(oneshot[c][wcur[c]].resp)]
    /\ IF rx_queue[c] # << >>
       THEN /\ wcur' = [wcur EXCEPT ![c] = Head(rx_queue[c])]
            /\ rx_queue' = [rx_queue EXCEPT ![c] = Tail(@)]
            /\ wpc' = [wpc EXCEPT ![c] = "await_inner"]
       ELSE /\ wpc' = [wpc EXCEPT ![c] = "write"]
            /\ UNCHANGED << wcur, rx_queue >>
    /\ UNCHANGED << requests, sock_in, rbuf, rstate, rpc, rcmd, decoded, oneshot,
                    db_channel, store, written >>
    /\ UNCHANGED at_eof
    /\ UNCHANGED << codecVars, shardVars >>

\* writer_task: write_all(&response_buf) succeeds; response_buf.clear()
writer_write(c) ==
    /\ wpc[c] = "write"
    /\ written' = [written EXCEPT ![c] = @ \o response_buf[c]]
    /\ response_buf' = [response_buf EXCEPT ![c] = << >>]
    /\ wpc' = [wpc EXCEPT ![c] = "recv"]
    /\ UNCHANGED << requests, sock_in, rbuf, rstate, rpc, rcmd, decoded, oneshot,
                    db_channel, store, rx_queue, wcur >>
    /\ UNCHANGED at_eof
    /\ UNCHANGED << codecVars, shardVars >>

\* writer_task: write_all fails => return Err(err.into()), dropping resp_rx
writer_write_err(c) ==
    /\ wpc[c] = "write"
    /\ wpc' = [wpc EXCEPT ![c] = "err"]
    /\ UNCHANGED << requests, sock_in, rbuf, rstate, rpc, rcmd, decoded, oneshot,
                    db_channel, store, rx_queue, wcur, response_buf, written >>
    /\ UNCHANGED at_eof
    /\ UNCHANGED << codecVars, shardVars >>

\* process (server.rs:24-32): what it returns once both tasks have returned
process(c) ==
    IF rpc[c] \in {"done", "err"} /\ WriterGone(c)
    THEN IF rpc[c] = "done" /\ wpc[c] = "done" THEN "Ok" ELSE "Err"
    ELSE "running"

(***************************************************************************)
(* SpecCodec: reader_task's loop (server.rs:42-51) without the dispatch.   *)
(***************************************************************************)
CodecVarsInit ==
    /\ sent = << >>
    /\ wire = << >>
    /\ fed = 0
    /\ chunk1 = TRUE
    /\ buf = << >>
    /\ state = Header
    /\ cpc = "idle"
    /\ yielded = << >>
    /\ rejectedAt = -1
    /\ res = None
    /\ encoded = << >>

CodecInit ==
    /\ ShardVarsInit
    /\ PipeVarsInit
    /\ sent \in UNION { [1..n -> FrameSet] : n \in 0..MaxFrames }
    /\ wire = Flatten(sent)
    /\ fed = 0
    /\ chunk1 = TRUE
    /\ buf = << >>
    /\ state = Header
    /\ cpc = "read"
    /\ yielded = << >>
    /\ rejectedAt = -1
    /\ res = None
    /\ encoded = << >>

\* socket.read_buf(&mut buf).await : Ok(n), n > 0
codec_read ==
    /\ cpc = "read"
    /\ \E n \in 1..Len(wire) :
         /\ buf' = buf \o split_to(wire, n)
         /\ wire' = advance(wire, n)
         /\ fed' = fed + n
         /\ chunk1' = (chunk1 /\ n = 1)
    /\ cpc' = "parse"
    /\ UNCHANGED << sent, state, yielded, rejectedAt >>
    /\ UNCHANGED << res, encoded >>
    /\ UNCHANGED << shardVars, pipeVars >>

\* Ok(0) => break : the client has closed and every byte was read
codec_eof ==
    /\ cpc = "read"
    /\ wire = << >>
    /\ cpc' = "closed"
    /\ UNCHANGED << sent, wire, fed, chunk1, buf, state, yielded, rejectedAt >>
    /\ UNCHANGED << res, encoded >>
    /\ UNCHANGED << shardVars, pipeVars >>

\* Err(err) => return Err(err.into())
codec_read_err ==
    /\ cpc = "read"
    /\ cpc' = "err"
    /\ UNCHANGED << sent, wire, fed, chunk1, buf, state, yielded, rejectedAt >>
    /\ UNCHANGED << res, encoded >>
    /\ UNCHANGED << shardVars, pipeVars >>

\* one evaluation of `while let Some(command) = frame.try_parse(&mut buf)`
codec_parse ==
    /\ cpc = "parse"
    /\ LET r == try_parse(state, buf)
       IN /\ state' = r.state
          /\ buf' = r.buf
          /\ yielded' = IF r.cmd = None THEN yielded ELSE Append(yielded, r.cmd)
          /\ rejectedAt' = IF r.rejected /\ rejectedAt < 0 THEN Len(yielded) ELSE rejectedAt
          /\ cpc' = IF r.panic THEN "panic" ELSE IF r.cmd = None THEN "read" ELSE "parse"
    /\ UNCHANGED << sent, wire, fed, chunk1 >>
    /\ UNCHANGED << res, encoded >>
    /\ UNCHANGED << shardVars, pipeVars >>

CodecNext == codec_read \/ codec_eof \/ codec_read_err \/ codec_parse

SpecCodec == CodecInit /\ [][CodecNext]_vars

(***************************************************************************)
(* SpecEncode: encode_response applied to one Response.                    *)
(***************************************************************************)
\* bound: the longest value or message enumerated byte by byte
MaxBytes == 2

ByteSeqs == UNION { [1..n -> {0, 255}] : n \in 0..MaxBytes }

\* a message one byte longer than a u16 can count
LongMessage == [i \in 1..65536 |-> 33]

ReqIds == {0, 1, 258, 16909060}

ResponseSet ==
    { RespOk(r, NoValue) : r \in ReqIds }
      \cup { RespOk(r, Some(v)) : r \in ReqIds, v \in ByteSeqs }
      \cup { RespNotFound(r) : r \in ReqIds }
      \cup { RespErr(r, m) : r \in ReqIds, m \in ByteSeqs \cup {LongMessage} }

EncodeInit ==
    /\ ShardVarsInit
    /\ PipeVarsInit
    /\ sent = << >> /\ wire = << >> /\ fed = 0 /\ chunk1 = TRUE /\ buf = << >>
    /\ state = Header /\ cpc = "idle" /\ yielded = << >> /\ rejectedAt = -1
    /\ res \in ResponseSet
    /\ encoded = << >>

codec_encode ==
    /\ encoded = << >>
    /\ encoded' = encode_response(res)
    /\ UNCHANGED << sent, wire, fed, chunk1, buf, state, cpc, yielded, rejectedAt, res >>
    /\ UNCHANGED << shardVars, pipeVars >>

EncodeNext == codec_encode

SpecEncode == EncodeInit /\ [][EncodeNext]_vars

ShardInit == ShardVarsInit /\ CodecVarsInit /\ PipeVarsInit

ShardNext ==
    \/ \E c \in Conns : shard_submit(c)
    \/ \E s \in Shards : db_manager(s)
    \/ \E s \in Shards : db_manager_send(s)
    \/ \E c \in Conns : resp_recv(c)
    \/ \E c \in Droppers : resp_drop(c)

SpecShard == ShardInit /\ [][ShardNext]_vars

\* the connections whose client keeps reading its responses
Readers == Conns \ Droppers

\* the executor runs every worker that can make progress, and the writer of
\* a client that keeps reading goes on taking Responses from its channel; a
\* client that does not read leaves its channel as it is
ShardFairness ==
    /\ \A s \in Shards :
         /\ WF_vars(db_manager(s))
         /\ WF_vars(db_manager_send(s))
    /\ \A c \in Readers : WF_vars(resp_recv(c))

FairSpecShard == SpecShard /\ ShardFairness

Init == PipeVarsInit /\ CodecVarsInit /\ ShardVarsInit

Next ==
    \/ \E c \in Conns : client_write(c)
    \/ \E c \in Conns : reader_read(c)
    \/ \E c \in Conns : reader_eof(c)
    \/ \E c \in Conns : reader_read_err(c)
    \/ \E c \in Conns : reader_dispatch(c)
    \/ db_worker
    \/ \E c \in Conns : writer_recv(c)
    \/ \E c \in Conns : writer_await(c)
    \/ \E c \in Conns : writer_write(c)
    \/ \E c \in Conns : writer_write_err(c)

Spec == Init /\ [][Next]_vars

\* the executor runs the store's task and every writer task that can make
\* progress; a socket write that keeps being possible completes
Fairness ==
    /\ WF_vars(db_worker)
    /\ \A c \in Conns :
         /\ WF_vars(writer_recv(c))
         /\ WF_vars(writer_await(c))
         /\ WF_vars(writer_write(c))

FairSpec == Spec /\ Fairness

(***************************************************************************)
(* Claims about the decoder (checked under SpecCodec)                      *)
(***************************************************************************)

\* C6: once the decoder has rejected a 12-byte header (bad magic, version or
\* opcode) the connection is dead: no Command is yielded from the bytes at or
\* after that header.
C6_BadHeaderIsFatal == rejectedAt >= 0 => Len(yielded) = rejectedAt

\* C7: the decoder is never in the Payload state with a payload_len above
\* MAX_FRAME.
C7_PayloadLenWithinMaxFrame ==
    state.tag = "Payload" => state.header.payload_len <= MAX_FRAME

\* C8: chunking invariance.  For a stream of well-formed frames, however it is
\* split into reads, once the parse loop has drained the buffer the Commands
\* yielded so far are exactly those of the frames wholly delivered (a frame
\* prefix adds none, completing it adds exactly one), and when the whole stream
\* is delivered they equal what one chunk holding the whole stream yields.
C8_ChunkingInvariance ==
    (WellFormed(sent) /\ cpc \in {"read", "closed", "err"}) =>
        /\ yielded = [i \in 1..CompleteFrames(sent, fed) |-> sent[i].cmd]
        /\ wire = << >> => yielded = ParseAll(Header, Flatten(sent))

\* two well-formed frames delivered one byte at a time, both decoded
C8_Witness ==
    /\ WellFormed(sent) /\ Len(sent) = 2 /\ wire = << >> /\ chunk1
    /\ cpc = "read" /\ Len(yielded) = 2

(***************************************************************************)
(* Claims about the store (checked under SpecShard)                        *)
(***************************************************************************)

\* every Response a worker has produced for connection c
Answers(c) ==
    { received[c][i] : i \in 1..Len(received[c]) }
      \cup { resp_ch[c][i] : i \in 1..Len(resp_ch[c]) }
      \cup { shard_send[s].resp : s \in { t \in Shards : shard_send[t] # None /\ shard_send[t].resp_tx = c } }

\* the positions in `submitted` of connection c's request with this req_id
Requests(c, req_id) ==
    { i \in 1..Len(submitted) : submitted[i].resp_tx = c /\ submitted[i].req_id = req_id }

\* the most recent SET or DELETE on the key of request i submitted before it (0: none)
LastWrite(i) ==
    LET W == { j \in 1..(i - 1) : submitted[j].key = submitted[i].key
                                    /\ submitted[j].op \in {"Set", "Delete"} }
    IN IF W = {} THEN 0 ELSE CHOOSE j \in W : \A k \in W : k <= j

\* C1: last-writer-wins.  A GET on k whose most recent preceding write on k (in
\* the order send_to_shard enqueued them, from any connection) is a SET is
\* answered OK with that SET's value.
C1_LastWriterWins ==
    \A c \in Conns : \A r \in Answers(c) : \A i \in Requests(c, r.req_id) :
        (submitted[i].op = "Get" /\ LastWrite(i) # 0 /\ submitted[LastWrite(i)].op = "Set")
            => r = RespOk(submitted[i].req_id, Some(submitted[LastWrite(i)].value))

\* two SETs on one key, then a GET on it whose answer has been received
C1_Witness ==
    \E c \in Conns : \E n \in 1..Len(received[c]) : \E i \in Requests(c, received[c][n].req_id) :
        /\ submitted[i].op = "Get"
        /\ received[c][n].status = "Ok"
        /\ LastWrite(i) # 0 /\ submitted[LastWrite(i)].op = "Set"
        /\ LastWrite(LastWrite(i)) # 0 /\ submitted[LastWrite(LastWrite(i))].op = "Set"
        /\ submitted[LastWrite(i)].resp_tx # submitted[LastWrite(LastWrite(i))].resp_tx

\* C2: a GET on a key never SET, or whose most recent preceding write is a
\* DELETE, is answered NOT_FOUND with the GET's req_id.
C2_GetMiss ==
    \A c \in Conns : \A r \in Answers(c) : \A i \in Requests(c, r.req_id) :
        (submitted[i].op = "Get" /\ (LastWrite(i) = 0 \/ submitted[LastWrite(i)].op = "Delete"))
            => r = RespNotFound(submitted[i].req_id)

\* SET k, DELETE k, GET k: the GET's NOT_FOUND has been received
C2_Witness ==
    \E c \in Conns : \E n \in 1..Len(received[c]) : \E i \in Requests(c, received[c][n].req_id) :
        /\ submitted[i].op = "Get"
        /\ received[c][n].status = "NotFound"
        /\ LastWrite(i) # 0 /\ submitted[LastWrite(i)].op = "Delete"
        /\ LastWrite(LastWrite(i)) # 0 /\ submitted[LastWrite(LastWrite(i))].op = "Set"

(***************************************************************************)
(* Claims about the connection pipeline (checked under Spec and FairSpec)  *)
(***************************************************************************)
get_u16_le(b) == b[1] + 256 * b[2]

get_u32_le(b) == b[1] + 256 * (b[2] + 256 * (b[3] + 256 * b[4]))

\* the client's view of the bytes of a connection: the Responses they hold,
\* by the response wire format (12-byte little-endian header, then
\* payload_len bytes of payload)
RECURSIVE DecodeResponses(_)
DecodeResponses(b) ==
    IF Len(b) < HEADER_LEN THEN << >>
    ELSE LET status == b[4]
             req_id == get_u32_le(SubSeq(b, 5, 8))
             payload_len == get_u32_le(SubSeq(b, 9, 12))
             payload == SubSeq(b, 13, 12 + payload_len)
             resp == IF get_u16_le(b) # MAGIC \/ b[3] # VERSION \/ Len(b) < 12 + payload_len
                     THEN [status |-> "Bad", req_id |-> req_id]
                     ELSE CASE status = StatusOk /\ payload_len = 0 -> RespOk(req_id, NoValue)
                            [] status = StatusOk /\ payload_len >= 4
                                 /\ get_u32_le(payload) = payload_len - 4 ->
                                   RespOk(req_id, Some(SubSeq(payload, 5, payload_len)))
                            [] status = StatusNotFound /\ payload_len = 0 -> RespNotFound(req_id)
                            [] OTHER -> [status |-> "Bad", req_id |-> req_id]
         IN << resp >> \o DecodeResponses(SubSeq(b, 13 + payload_len, Len(b)))

\* the Responses the writer of connection c has taken so far, in order
Taken(c) == DecodeResponses(written[c] \o response_buf[c])

\* the Responses written to the socket of connection c, in order
Written(c) == DecodeResponses(written[c])

Count(seq, id) == Cardinality({ i \in 1..Len(seq) : seq[i].req_id = id })

\* C3: every Response a connection's writer takes carries, unchanged, the
\* req_id of a Request decoded earlier on that connection (req_ids name their
\* connection here), and no Request has more Responses than one.
C3_ResponseMatchesRequest ==
    \A c \in Conns :
        /\ \A i \in 1..Len(Taken(c)) :
              /\ Taken(c)[i].status \in {"Ok", "NotFound"}
              /\ Count(Taken(c), Taken(c)[i].req_id) <= Count(decoded[c], Taken(c)[i].req_id)
        /\ \A k \in 1..Len(oneshot[c]) :
              oneshot[c][k].resp # None => oneshot[c][k].resp.req_id = oneshot[c][k].req_id

\* both connections have had a Response written
C3_Witness == Len(Written(1)) >= 1 /\ Len(Written(2)) >= 1

\* C4: on a connection the Responses are written in the order in which the
\* reader dispatched their requests.
C4_SubmissionOrder ==
    \A c \in Conns :
        /\ Len(Taken(c)) <= Len(oneshot[c])
        /\ \A i \in 1..Len(Taken(c)) : Taken(c)[i].req_id = oneshot[c][i].req_id

\* two Responses written on one connection for requests on different keys
C4_Witness ==
    /\ Len(Written(1)) = 2
    /\ requests[1][1].key # requests[1][2].key

\* no server task of connection c can take a step
Quiet(c) ==
    /\ sock_in[c] = << >>
    /\ ~ENABLED reader_dispatch(c)
    /\ ~ENABLED writer_recv(c)
    /\ ~ENABLED writer_await(c)
    /\ ~ENABLED writer_write(c)
    /\ \A i \in 1..Len(db_channel) : db_channel[i].resp_tx.conn # c

NoIoError(c) == rpc[c] # "err" /\ wpc[c] # "err"

\* C5: pipelining completes.  Without an I/O error, when no task of a
\* connection can step any more, every request the client wrote has had its
\* Response written, once each.
C5_PipeliningCompletes ==
    \A c \in Conns :
        (NoIoError(c) /\ Quiet(c)) =>
            /\ Len(Written(c)) = Len(requests[c])
            /\ \A i \in 1..Len(requests[c]) : Count(Written(c), requests[c][i].req_id) = 1

\* C9: SET k then DELETE k on one connection, nothing else running: once the
\* connection is quiet the answers are OK and OK carrying the value SET.
C9_DeleteReturnsPrior ==
    \A c \in Conns :
        ( /\ NoIoError(c) /\ Quiet(c)
          /\ \A d \in Conns \ {c} : requests[d] = << >>
          /\ Len(requests[c]) = 2
          /\ requests[c][1].op = "Set" /\ requests[c][2].op = "Delete"
          /\ requests[c][1].key = requests[c][2].key )
        => Written(c) = << RespOk(requests[c][1].req_id, NoValue),
                           RespOk(requests[c][2].req_id, Some(requests[c][1].value)) >>

\* C9, the store's half (under SpecShard): a DELETE whose most recent
\* preceding write on its key is a SET is answered OK with that value, any
\* other DELETE NOT_FOUND.
StoreDeleteSemantics ==
    \A c \in Conns : \A r \in Answers(c) : \A i \in Requests(c, r.req_id) :
        submitted[i].op = "Delete" =>
            r = IF LastWrite(i) # 0 /\ submitted[LastWrite(i)].op = "Set"
                THEN RespOk(submitted[i].req_id, Some(submitted[LastWrite(i)].value))
                ELSE RespNotFound(submitted[i].req_id)

AllDispatchedWritten(c) ==
    /\ Len(Written(c)) = Len(oneshot[c])
    /\ \A i \in 1..Len(oneshot[c]) : Written(c)[i].req_id = oneshot[c][i].req_id

\* C10 as claimed: after the reader's EOF the writer exits with success and
\* process returns Ok with every dispatched command answered.
C10_EofEndsOk ==
    \A c \in Conns :
        (rpc[c] = "done" /\ WriterGone(c)) => (process(c) = "Ok" /\ AllDispatchedWritten(c))

\* C10 amended: after the reader's EOF, unless a socket write fails, process
\* eventually returns Ok, and whenever it returns Ok the Response of every
\* dispatched command has been written.
C10_CleanShutdown ==
    /\ [](\A c \in Conns : process(c) = "Ok" => AllDispatchedWritten(c))
    /\ \A c \in Conns :
         (rpc[c] = "done") ~> (wpc[c] = "err" \/ (process(c) = "Ok" /\ AllDispatchedWritten(c)))

\* process returned Ok having written two Responses, none of them before EOF
C10_Witness ==
    \E c \in Conns :
        /\ process(c) = "Ok" /\ Len(Written(c)) = 2 /\ at_eof[c] = 0

\* reader_task of connection c is suspended in read_buf with nothing to read:
\* only the client (more bytes, a close, a reset) can make it run again
ReaderWaitsForClient(c) == rpc[c] = "read" /\ sock_in[c] = << >>

\* C11: cancellation as a unit.  Once the writer has returned with a write
\* error the reader does not stay suspended waiting for a client that sends
\* nothing more and does not close: it terminates.
C11_ReaderFollowsWriter ==
    \A c \in Conns : wpc[c] = "err" => ~ReaderWaitsForClient(c)

\* C12: the work items enqueued by readers and not yet consumed by the store
\* worker never number more than the inbox capacity.
C12_InboxBounded == Len(db_channel) <= InboxCap

\* C12, the router's half (under SpecShard): send_to_shard never leaves more
\* than InboxCap commands in an inbox.
ShardInboxBounded == \A s \in Shards : Len(shard_rx[s]) <= InboxCap

\* C19: writer batching never waits.  While response_buf holds encoded
\* Responses not yet written, the writer is not suspended on a Response that
\* the worker has not produced yet.
C19_BatchingNeverWaits ==
    \A c \in Conns :
        (response_buf[c] # << >> /\ wpc[c] \in {"await", "await_inner"})
            => oneshot[c][wcur[c]].resp # None

(***************************************************************************)
(* Further claims about the decoder (checked under SpecCodec)              *)
(***************************************************************************)

\* C15: keys are never empty.  No Command the decoder yields has a key of
\* length zero.
C15_NoEmptyKey == \A i \in 1..Len(yielded) : yielded[i].key # << >>

\* try_parse is about to be called with too few bytes for its state
ShortRead(st, b) ==
    \/ st.tag = "Header" /\ Len(b) < HEADER_LEN
    \/ st.tag = "Payload" /\ Len(b) < st.header.payload_len

\* C18: a short read has no effect.  A call of try_parse in the Header state
\* with fewer than 12 bytes buffered, or in the Payload(h) state with fewer
\* than h.payload_len, yields no Command and leaves buffer and state as they
\* were.
C18_ShortReadNoEffect ==
    [][ (cpc = "parse" /\ ShortRead(state, buf))
            => (buf' = buf /\ state' = state /\ yielded' = yielded /\ cpc' = "read") ]_vars

\* bytes delivered one at a time: try_parse has been called in the Payload
\* state on a short buffer and the reader is back waiting for more
C18_Witness ==
    /\ chunk1 /\ cpc = "read"
    /\ state.tag = "Payload" /\ Len(buf) >= 2 /\ Len(buf) < state.header.payload_len

\* the header of the frame that this call of try_parse finishes (it was
\* validated by this call or by an earlier one)
FinishedHeader == IF state.tag = "Payload" THEN state.header ELSE parse_req_header(buf).header

\* bytes of that frame removed from the buffer before this call
RemovedBefore == IF state.tag = "Payload" THEN HEADER_LEN ELSE 0

\* C20: frame alignment.  When a call of try_parse comes back to the Header
\* state from a frame whose header passed validation, the frame has had
\* exactly 12 + payload_len bytes removed from the buffer.
C20_FrameAlignment ==
    [][ ( /\ cpc = "parse" /\ cpc' # "panic"
          /\ state.tag = "Payload" \/ parse_req_header(buf).some
          /\ state'.tag = "Header" )
            => RemovedBefore + Len(buf) - Len(buf') = HEADER_LEN + FinishedHeader.payload_len ]_vars

(***************************************************************************)
(* Claims about the encoder (checked under SpecEncode)                     *)
(***************************************************************************)

\* C13: encode_response emits a 12-byte header followed by the payload: the
\* header's payload_len is the number of bytes after the header, an OK
\* value is preceded by its length as val_len, an ERR message by its length
\* as msg_len.
C13_EncodedLengths ==
    encoded # << >> =>
        /\ Len(encoded) >= HEADER_LEN
        /\ get_u32_le(SubSeq(encoded, 9, 12)) = Len(encoded) - HEADER_LEN
        /\ (res.status = "Ok" /\ res.value.some) =>
              /\ get_u32_le(SubSeq(encoded, 13, 16)) = Len(res.value.v)
              /\ SubSeq(encoded, 17, Len(encoded)) = res.value.v
        /\ res.status = "Err" =>
              /\ get_u16_le(SubSeq(encoded, 13, 14)) = Len(encoded) - 14
              /\ SubSeq(encoded, 15, Len(encoded)) = res.message

\* one Response read from a byte string by the response wire format: the
\* little-endian header, then payload_len bytes holding the payload of the
\* status
DecodeResponse(b) ==
    IF Len(b) < HEADER_LEN \/ get_u16_le(b) # MAGIC \/ b[3] # VERSION
    THEN [status |-> "Bad"]
    ELSE LET status == b[4]
             req_id == get_u32_le(SubSeq(b, 5, 8))
             payload_len == get_u32_le(SubSeq(b, 9, 12))
             payload == SubSeq(b, 13, Len(b))
         IN IF Len(payload) # payload_len THEN [status |-> "Bad"]
            ELSE CASE status = StatusOk /\ payload_len = 0 -> RespOk(req_id, NoValue)
                   [] status = StatusOk /\ payload_len >= 4
                        /\ get_u32_le(payload) = payload_len - 4 ->
                          RespOk(req_id, Some(SubSeq(payload, 5, payload_len)))
                   [] status = StatusNotFound /\ payload_len = 0 -> RespNotFound(req_id)
                   [] status = StatusErr /\ payload_len >= 2
                        /\ get_u16_le(payload) = payload_len - 2 ->
                          RespErr(req_id, SubSeq(payload, 3, payload_len))
                   [] OTHER -> [status |-> "Bad"]

\* C14: response round trip.  Decoding what encode_response returned gives
\* the Response back.
C14_ResponseRoundTrip == encoded # << >> => DecodeResponse(encoded) = res

(***************************************************************************)
(* Further claims about the shards (checked under SpecShard)               *)
(***************************************************************************)

\* C16: stable single ownership.  Every command waiting in an inbox is in the
\* inbox shard_for_key gives for its key, an index in 0..N-1, whatever its
\* opcode or connection; so every key of a shard's map belongs to that shard
\* and no key is in two maps.
C16_StableOwnership ==
    /\ \A s \in Shards : \A i \in 1..Len(shard_rx[s]) :
          shard_for_key(shard_rx[s][i].key, NumShards) = s
    /\ \A i \in 1..Len(submitted) : shard_for_key(submitted[i].key, NumShards) \in Shards
    /\ \A s \in Shards : \A k \in DOMAIN shard_db[s] : shard_for_key(k, NumShards) = s
    /\ \A s, t \in Shards : s # t => DOMAIN shard_db[s] \cap DOMAIN shard_db[t] = {}

\* every shard holds a key, and one key has had commands of different
\* opcodes from different connections
C16_Witness ==
    /\ \A s \in Shards : DOMAIN shard_db[s] # {}
    /\ \E i, j \in 1..Len(submitted) :
          /\ submitted[i].key = submitted[j].key
          /\ submitted[i].op # submitted[j].op
          /\ submitted[i].resp_tx # submitted[j].resp_tx

\* the Response the store semantics prescribe for request i of `submitted`
Prescribed(i) ==
    IF submitted[i].op = "Set" THEN RespOk(submitted[i].req_id, NoValue)
    ELSE IF LastWrite(i) # 0 /\ submitted[LastWrite(i)].op = "Set"
         THEN RespOk(submitted[i].req_id, Some(submitted[LastWrite(i)].value))
         ELSE RespNotFound(submitted[i].req_id)

\* every worker is waiting on an empty inbox
ShardsIdle == \A s \in Shards : shard_rx[s] = << >> /\ shard_send[s] = None

\* C17: error isolation.  After a connection's receiver is gone the workers
\* keep running: a worker holding a reply for it is not stuck, a worker with
\* a command waiting can take it; every answer to a connection that is still
\* there is the one the store semantics prescribe, counting the commands of
\* the connection that is gone; and once the workers have drained their
\* inboxes every request of a connection that is still there is answered.
C17_ErrorIsolation ==
    /\ \A s \in Shards :
          /\ (shard_send[s] # None /\ shard_send[s].resp_tx \in resp_closed)
                => ENABLED db_manager_send(s)
          /\ (shard_send[s] = None /\ shard_rx[s] # << >>) => ENABLED db_manager(s)
    /\ \A d \in Conns \ resp_closed :
          /\ \A r \in Answers(d) : \A i \in Requests(d, r.req_id) : r = Prescribed(i)
          /\ ShardsIdle =>
                \A i \in 1..Len(submitted) :
                    submitted[i].resp_tx = d =>
                        \E r \in Answers(d) : r.req_id = submitted[i].req_id

\* connection c is gone, the reply to its only command, a SET, was
\* discarded (the SET was applied and no reply to c exists), and the other
\* connection has received that SET's value
C17_Witness ==
    \E c \in resp_closed : \E d \in Conns \ resp_closed :
        /\ Answers(c) = {}
        /\ Cardinality({ i \in 1..Len(submitted) : submitted[i].resp_tx = c }) = 1
        /\ \E n \in 1..Len(received[d]) : \E i \in Requests(d, received[d][n].req_id) :
              /\ submitted[i].op = "Get"
              /\ LastWrite(i) # 0
              /\ submitted[LastWrite(i)].op = "Set"
              /\ submitted[LastWrite(i)].resp_tx = c
              /\ received[d][n] = RespOk(submitted[i].req_id, Some(submitted[LastWrite(i)].value))

(***************************************************************************)
(* C21: no read past the buffered bytes.  Every get_u16, get_u32 and       *)
(* split_to of Frame::try_parse and its payload parsers runs only when the *)
(* buffer holds that many bytes, also when payload_len is 0 or 1.  A read  *)
(* of more bytes than are buffered is the panic of bytes::Buf, so the      *)
(* reader never reaches "panic".                                           *)
(***************************************************************************)
C21_NoReadPastBuffer == cpc # "panic"

(***************************************************************************)
(* C22: no cross-connection stall.  A connection whose response channel is *)
(* full because its client does not read does not keep the store worker    *)
(* from processing and answering what other connections submitted to the   *)
(* same worker: whenever a connection whose client reads has a command     *)
(* without its Response, a state follows in which all its commands are     *)
(* answered.                                                               *)
(***************************************************************************)
Submitted(c) == Cardinality({i \in 1..Len(submitted) : submitted[i].resp_tx = c})

Unanswered(c) == Len(received[c]) < Submitted(c)

C22_NoCrossStall == \A c \in Readers : Unanswered(c) ~> ~Unanswered(c)

====
